---- MODULE Spec2Model ----
(***************************************************************************)
(* A model of query.js (the cached version, src/query.js lines 326-577):   *)
(* the Query request driver with its sessionStorage cache, the AST-to-text *)
(* serializer buildQuery / buildFields / buildListArgumentValue, and the   *)
(* cache-key builder buildStorageKey.                                      *)
(*                                                                         *)
(* Text is modelled as a sequence of one-character strings, so that        *)
(* concatenation, first-occurrence replacement, upper-casing and JSON      *)
(* quoting are computed as the JavaScript computes them.                   *)
(***************************************************************************)
EXTENDS Integers, Sequences, FiniteSets, TLC

VARIABLES
  variablesHeap,   \* the callers' variables objects (mutable, shared by reference)
  calls,           \* per Query call: its arguments, locals, position and outcome
  sessionStorage,  \* the item stored under queryCacheKey, or NoItem
  clock,           \* number of steps taken so far (orders starts and completions)
  keyIn, keyOut,   \* input and output of a stand-alone buildStorageKey run
  astIn, queryOut  \* input and output of a stand-alone buildQuery run

vars == <<variablesHeap, calls, sessionStorage, clock, keyIn, keyOut, astIn, queryOut>>

driverVars == <<variablesHeap, calls, sessionStorage, clock>>
keyVars == <<keyIn, keyOut>>
buildVars == <<astIn, queryOut>>

(***************************************************************************)
(* Bounds of the model.                                                    *)
(***************************************************************************)
MaxCalls == 2      \* Query calls in one session
MaxVars == 2       \* entries of a variables map given to buildStorageKey
MaxFrags == 3      \* fragment definitions of a document given to buildQuery

(***************************************************************************)
(* JavaScript values.                                                      *)
(***************************************************************************)
Undefined == [t |-> "undefined"]
Null == [t |-> "null"]
Str(s) == [t |-> "string", s |-> s]
Num(n) == [t |-> "number", n |-> n]
Obj(e) == [t |-> "object", e |-> e]    \* e: the entries <<name, value>>, in insertion order

\* JavaScript truthiness (ToBoolean).
truthy(v) ==
  CASE v.t = "undefined" -> FALSE
    [] v.t = "null" -> FALSE
    [] v.t = "string" -> v.s # <<>>
    [] v.t = "number" -> v.n # 0
    [] OTHER -> TRUE

(***************************************************************************)
(* String primitives.                                                      *)
(***************************************************************************)
Min(S) == CHOOSE x \in S : \A y \in S : x <= y

\* String.prototype.indexOf, 1-based; 0 when pat does not occur.
indexOf(s, pat) ==
  LET at == {p \in 1..(Len(s) - Len(pat) + 1) : SubSeq(s, p, p + Len(pat) - 1) = pat}
  IN IF at = {} THEN 0 ELSE Min(at)

includes(s, pat) == indexOf(s, pat) # 0

\* The replacement text of String.prototype.replace for a string pattern:
\* $$ is a dollar sign and $& the match.  (The patterns for the text before
\* and after the match need a backtick or an apostrophe after the dollar
\* sign; neither character is in the alphabet of the modelled documents.)
RECURSIVE GetSubstitution(_, _, _, _)
GetSubstitution(rep, matched, before, after) ==
  IF rep = <<>> THEN <<>>
  ELSE IF Head(rep) = "$" /\ Len(rep) >= 2 /\ rep[2] \in {"$", "&"}
  THEN (IF rep[2] = "$" THEN <<"$">> ELSE matched)
       \o GetSubstitution(SubSeq(rep, 3, Len(rep)), matched, before, after)
  ELSE <<Head(rep)>> \o GetSubstitution(Tail(rep), matched, before, after)

\* String.prototype.replace(pat, rep) with a string pattern: the first
\* occurrence only.
replace(s, pat, rep) ==
  LET p == indexOf(s, pat)
      before == SubSeq(s, 1, p - 1)
      after == SubSeq(s, p + Len(pat), Len(s))
  IN IF p = 0 THEN s
     ELSE before \o GetSubstitution(rep, pat, before, after) \o after

\* Array.prototype.join.
RECURSIVE join(_, _)
join(parts, sep) ==
  IF parts = <<>> THEN <<>>
  ELSE IF Len(parts) = 1 THEN parts[1]
  ELSE parts[1] \o sep \o join(Tail(parts), sep)

\* Array.prototype.map would be [i \in DOMAIN s |-> f(s[i])]; written inline.

Digits == <<"0", "1", "2", "3", "4", "5", "6", "7", "8", "9">>

\* Number-to-string conversion of a natural number (template literal, JSON).
RECURSIVE NumberToString(_)
NumberToString(n) ==
  IF n < 10 THEN <<Digits[n + 1]>>
  ELSE NumberToString(n \div 10) \o <<Digits[(n % 10) + 1]>>

LowerCase == <<"a", "b", "c", "d", "e", "f", "g", "h", "i", "j", "k", "l", "m",
               "n", "o", "p", "q", "r", "s", "t", "u", "v", "w", "x", "y", "z">>
UpperCase == <<"A", "B", "C", "D", "E", "F", "G", "H", "I", "J", "K", "L", "M",
               "N", "O", "P", "Q", "R", "S", "T", "U", "V", "W", "X", "Y", "Z">>

\* String.prototype.toUpperCase.
toUpperCase(s) ==
  [i \in DOMAIN s |->
     IF \E k \in DOMAIN LowerCase : LowerCase[k] = s[i]
     THEN UpperCase[CHOOSE k \in DOMAIN LowerCase : LowerCase[k] = s[i]]
     ELSE s[i]]

\* String.prototype.replaceAll for a one-character pattern and replacement.
replaceAll(s, ch, by) == [i \in DOMAIN s |-> IF s[i] = ch THEN by ELSE s[i]]

\* String.prototype.split(sep)[0]: the text before the first separator.
splitFirst(s, ch) ==
  LET p == indexOf(s, <<ch>>) IN IF p = 0 THEN s ELSE SubSeq(s, 1, p - 1)

(***************************************************************************)
(* JSON.stringify.                                                         *)
(***************************************************************************)
\* QuoteJSONString: a string wrapped in double quotes, " and \ escaped.
RECURSIVE EscapeJSON(_)
EscapeJSON(s) ==
  IF s = <<>> THEN <<>>
  ELSE (IF Head(s) \in {"\"", "\\"} THEN <<"\\", Head(s)>> ELSE <<Head(s)>>)
       \o EscapeJSON(Tail(s))

QuoteJSONString(s) == <<"\"">> \o EscapeJSON(s) \o <<"\"">>

\* The entries of an object that JSON.stringify keeps: a property whose
\* value is undefined is omitted.
SerializableEntries(e) == SelectSeq(e, LAMBDA kv : kv[2] # Undefined)

\* JSON.stringify(v) as text; JSON.stringify(undefined) is undefined, which
\* a template literal renders as the word "undefined".
RECURSIVE JSONstringify(_)
JSONstringify(v) ==
  CASE v.t = "undefined" -> <<"u", "n", "d", "e", "f", "i", "n", "e", "d">>
    [] v.t = "null" -> <<"n", "u", "l", "l">>
    [] v.t = "string" -> QuoteJSONString(v.s)
    [] v.t = "number" -> NumberToString(v.n)
    [] OTHER ->
       LET kept == SerializableEntries(v.e)
       IN <<"{">>
          \o join([i \in DOMAIN kept |->
                     QuoteJSONString(kept[i][1]) \o <<":">> \o JSONstringify(kept[i][2])],
                  <<",">>)
          \o <<"}">>

(***************************************************************************)
(* buildStorageKey (src/query.js 562-577).                                 *)
(* astData: [loc |-> [end |-> Nat, source |-> [body |-> text]],            *)
(*           definitions |-> sequence of definitions].                     *)
(* variables: Undefined (the default {} applies) or Obj(entries).          *)
(***************************************************************************)
FragmentWord == <<"f", "r", "a", "g", "m", "e", "n", "t">>
LengthWord == <<"-", "l", "e", "n", "g", "t", "h", ":">>

\* definition.operation || fragment
definitionType(definition) ==
  IF "operation" \in DOMAIN definition THEN definition.operation ELSE FragmentWord

\* Object.entries(variables) with the default parameter value {}.
entriesOf(variables) == IF variables = Undefined THEN <<>> ELSE variables.e

buildStorageKey(astData, variables) ==
  LET defs == astData.definitions
      queryString ==
        join([i \in DOMAIN defs |->
                definitionType(defs[i]) \o <<":", "\"">> \o defs[i].name.value \o <<"\"">>],
             <<"-">>)
      ents == entriesOf(variables)
      variableString ==
        join([i \in DOMAIN ents |-> ents[i][1] \o <<":">> \o JSONstringify(ents[i][2])],
             <<"-">>)
  IN queryString \o LengthWord \o NumberToString(astData.loc.end) \o <<"-">> \o variableString

(***************************************************************************)
(* buildListArgumentValue (src/query.js 544-554).                          *)
(***************************************************************************)
UndefinedWord == <<"u", "n", "d", "e", "f", "i", "n", "e", "d">>

\* x.value inside a template literal: the text, or the word undefined when
\* the node has no such field.
valueOf(node) == IF "value" \in DOMAIN node THEN node.value ELSE UndefinedWord

buildListArgumentValue(argument) ==
  LET vals == argument.value.values
      values ==
        [i \in DOMAIN vals |->
           LET fs == vals[i].fields
               fields ==
                 [j \in DOMAIN fs |->
                    valueOf(fs[j].name) \o <<":", " ", "\"">> \o valueOf(fs[j].value) \o <<"\"">>]
           IN <<"{">> \o join(fields, <<",", " ">>) \o <<"}">>]
  IN <<"[">> \o join(values, <<",", " ">>) \o <<"]">>

(***************************************************************************)
(* buildFields (src/query.js 480-537).                                     *)
(* A selection is a record with kind and, when present in the AST, alias,  *)
(* name, typeCondition, arguments and selectionSet.                        *)
(***************************************************************************)
\* selection.name?.value
nameValue(selection) ==
  IF "name" \in DOMAIN selection THEN selection.name.value ELSE UndefinedWord

\* One rendered argument: lines 504-522.
buildArgument(argument) ==
  LET kind == argument.value.kind
      value ==
        CASE kind = "ListValue" -> buildListArgumentValue(argument)
          [] kind = "StringValue" -> <<"\"">> \o valueOf(argument.value) \o <<"\"">>
          [] kind = "Variable" -> <<"$">> \o argument.value.name.value
          [] OTHER -> valueOf(argument.value)
  IN argument.name.value \o <<":", " ">> \o value

RECURSIVE buildFields(_)
buildFields(selections) ==
  [i \in DOMAIN selections |->
     LET selection == selections[i]
         named ==
           IF "alias" \in DOMAIN selection
           THEN selection.alias.value \o <<":", " ">> \o nameValue(selection)
           ELSE nameValue(selection)
         inline ==
           IF selection.kind = "InlineFragment"
           THEN <<".", ".", ".", " ", "o", "n", " ">> \o selection.typeCondition.name.value
           ELSE named
         spread ==
           IF selection.kind = "FragmentSpread"
           THEN <<".", ".", ".">> \o selection.name.value
           ELSE inline
         withArguments ==
           IF "arguments" \in DOMAIN selection /\ Len(selection.arguments) # 0
           THEN spread \o <<"(">>
                \o join([a \in DOMAIN selection.arguments |->
                           buildArgument(selection.arguments[a])], <<",", " ">>)
                \o <<")">>
           ELSE spread
     IN IF "selectionSet" \in DOMAIN selection
        THEN withArguments \o <<" ", "{", "\n">>
             \o join(buildFields(selection.selectionSet.selections), <<"\n">>)
             \o <<"\n", "}">>
        ELSE withArguments]

(***************************************************************************)
(* buildQuery (src/query.js 431-472).                                      *)
(***************************************************************************)
ImportWord == <<"#", "i", "m", "p", "o", "r", "t">>
WhiteSpace == {" ", "\n", "\t"}

\* .replace(/#import.*\n/g, ''): every "#import" up to and including the
\* end of its line; "." does not match the line end, so an #import on a
\* last line without a line end is kept.
RECURSIVE stripImports(_)
stripImports(s) ==
  LET p == indexOf(s, ImportWord)
      rest == SubSeq(s, p + Len(ImportWord), Len(s))
      nl == indexOf(rest, <<"\n">>)
  IN IF p = 0 \/ nl = 0 THEN s
     ELSE SubSeq(s, 1, p - 1) \o stripImports(SubSeq(rest, nl + 1, Len(rest)))

\* String.prototype.trim.
RECURSIVE trim(_)
trim(s) ==
  IF s = <<>> THEN s
  ELSE IF Head(s) \in WhiteSpace THEN trim(Tail(s))
  ELSE IF s[Len(s)] \in WhiteSpace THEN trim(SubSeq(s, 1, Len(s) - 1))
  ELSE s

\* fragments[key] = value on an object kept as its entries in insertion
\* order: an existing key keeps its place.
setProperty(entries, key, value) ==
  IF \E i \in DOMAIN entries : entries[i][1] = key
  THEN [i \in DOMAIN entries |-> IF entries[i][1] = key THEN <<key, value>> ELSE entries[i]]
  ELSE Append(entries, <<key, value>>)

\* Lines 446-453: the fragments object after the first j definitions.
RECURSIVE collectFragments(_, _)
collectFragments(definitions, j) ==
  IF j = 0 THEN <<>>
  ELSE LET before == collectFragments(definitions, j - 1)
           definition == definitions[j]
       IN IF definition.kind # "FragmentDefinition" THEN before
          ELSE setProperty(before, definition.name.value,
                           join(buildFields(definition.selectionSet.selections), <<"\n">>))

spreadOf(name) == <<".", ".", ".">> \o name

\* Lines 464-466, one iteration of the inner loop: the assignment to
\* formattedValue (its right-hand side reads value, not formattedValue).
nestedStep(formattedValue, value, fragmentKey, fragmentValue) ==
  replace(value, spreadOf(fragmentKey), fragmentValue)

\* Lines 459-466: formattedValue after the inner loop has run over the
\* first j entries of fragments.
RECURSIVE resolveNested(_, _, _)
resolveNested(fragments, value, j) ==
  IF j = 0 THEN value
  ELSE nestedStep(resolveNested(fragments, value, j - 1), value,
                  fragments[j][1], fragments[j][2])

formattedValueOf(fragments, i) ==
  resolveNested(fragments, fragments[i][2], Len(fragments))

\* Lines 458-469: query after the outer loop has run over the first i entries.
RECURSIVE inlineFragments(_, _, _)
inlineFragments(query, fragments, i) ==
  IF i = 0 THEN query
  ELSE replace(inlineFragments(query, fragments, i - 1),
               spreadOf(fragments[i][1]), formattedValueOf(fragments, i))

fragmentsOf(astData) == collectFragments(astData.definitions, Len(astData.definitions))

buildQuery(astData) ==
  LET query == trim(stripImports(astData.loc.source.body))
      fragments == fragmentsOf(astData)
  IN inlineFragments(query, fragments, Len(fragments))

(***************************************************************************)
(* Documents: the AST the build-time loader hands to Query.                *)
(***************************************************************************)
Name(v) == [value |-> v]
Field(n) == [kind |-> "Field", name |-> Name(n)]
FragmentSpread(n) == [kind |-> "FragmentSpread", name |-> Name(n)]
FragmentDefinition(n, selections) ==
  [kind |-> "FragmentDefinition", name |-> Name(n),
   selectionSet |-> [selections |-> selections]]
OperationDefinition(n) ==
  [kind |-> "OperationDefinition", operation |-> <<"q", "u", "e", "r", "y">>,
   name |-> Name(n), selectionSet |-> [selections |-> <<>>]]
Document(body, definitions) ==
  [loc |-> [end |-> Len(body), source |-> [body |-> body]], definitions |-> definitions]

F == <<"F">>
FB == <<"F", "B">>
G == <<"G">>
H == <<"H">>

\* fragment F { id  t: title(truncateAt: "80", by: [{k: "v"}], n: 5) }
fragF ==
  FragmentDefinition(F,
    << Field(<<"i", "d">>),
       [kind |-> "Field", alias |-> Name(<<"t">>), name |-> Name(<<"t", "i", "t", "l", "e">>),
        arguments |->
          << [name |-> Name(<<"a", "t">>),
              value |-> [kind |-> "StringValue", value |-> <<"8", "0">>]],
             [name |-> Name(<<"b", "y">>),
              value |-> [kind |-> "ListValue",
                         values |-> << [fields |-> << [name |-> Name(<<"k">>),
                                                       value |-> [value |-> <<"v">>]] >>] >>]],
             [name |-> Name(<<"n">>),
              value |-> [kind |-> "IntValue", value |-> <<"5">>]] >>] >>)

\* fragment FB { sku(first: $n) }
fragFB ==
  FragmentDefinition(FB,
    << [kind |-> "Field", name |-> Name(<<"s", "k", "u">>),
        arguments |->
          << [name |-> Name(<<"f", "i", "r", "s", "t">>),
              value |-> [kind |-> "Variable", name |-> Name(<<"n">>)]] >>] >>)

\* fragment G { name ...F }
fragG == FragmentDefinition(G, << Field(<<"n", "a", "m", "e">>), FragmentSpread(F) >>)

\* fragment H { ... on T { ...G  ...FB } }
fragH ==
  FragmentDefinition(H,
    << [kind |-> "InlineFragment", typeCondition |-> [name |-> Name(<<"T">>)],
        selectionSet |-> [selections |-> << FragmentSpread(G), FragmentSpread(FB) >>]] >>)

FragmentPool == <<fragF, fragFB, fragG, fragH>>

\* The operation source texts (loc.source.body).
bodyF == <<"q", "{">> \o spreadOf(F) \o <<"}">>
bodyFBF == <<"q", "{">> \o spreadOf(FB) \o <<" ">> \o spreadOf(F) \o <<"}">>
bodyFG == <<"q", "{">> \o spreadOf(F) \o <<" ">> \o spreadOf(G) \o <<"}">>
bodyG == <<"q", "{">> \o spreadOf(G) \o <<"}">>
bodyH == <<"q", "{", "a", " ">> \o spreadOf(H) \o <<"}">>
bodyImport ==
  ImportWord \o <<" ", "x", "\n", "\n">> \o <<"q", "{">> \o spreadOf(F) \o <<" ">>
  \o spreadOf(FB) \o <<"}", "\n">>

Bodies == {bodyF, bodyFBF, bodyFG, bodyG, bodyH, bodyImport}

\* The orders in which up to MaxFrags distinct fragments can be defined.
FragmentOrders ==
  {o \in UNION {[1..n -> DOMAIN FragmentPool] : n \in 0..MaxFrags} :
     \A i, j \in DOMAIN o : i # j => o[i] # o[j]}

BuildInputs ==
  {Document(body, <<OperationDefinition(<<"Q">>)>> \o [i \in DOMAIN o |-> FragmentPool[o[i]]]) :
     body \in Bodies, o \in FragmentOrders}

\* The variables maps handed to a stand-alone buildStorageKey run.
KeyNames == {<<"a">>, <<"b">>, <<"a", ":", "1", "-", "b">>}
KeyValues == {Num(1), Num(2), Str(<<"x">>)}
KeyVarMaps ==
  {Undefined} \cup
  {Obj(e) : e \in {m \in UNION {[1..n -> KeyNames \X KeyValues] : n \in 0..MaxVars} :
                     \A i, j \in DOMAIN m : i # j => m[i][1] # m[j][1]}}
KeyDocs ==
  {Document(bodyF, <<OperationDefinition(<<"Q">>), fragF>>),
   Document(bodyG, <<OperationDefinition(<<"Q">>)>>)}

KeyIdle == Undefined
BuildIdle == Undefined

(***************************************************************************)
(* JSON text of an object, and JSON.parse of it.                           *)
(* The text of an object is kept as the list of its members, each the      *)
(* quoted name and the text of the value, in the order JSON.stringify      *)
(* writes them; members whose value is undefined are not written.          *)
(***************************************************************************)
stringifyMembers(entries) ==
  LET kept == SerializableEntries(entries)
  IN [t |-> "json",
      members |-> [i \in DOMAIN kept |->
                     <<QuoteJSONString(kept[i][1]), JSONstringify(kept[i][2])>>]]

\* The name inside a quoted JSON string: the quotes dropped, escapes undone.
RECURSIVE UnescapeJSON(_)
UnescapeJSON(s) ==
  IF s = <<>> THEN <<>>
  ELSE IF Head(s) = "\\" /\ Len(s) >= 2 THEN <<s[2]>> \o UnescapeJSON(SubSeq(s, 3, Len(s)))
  ELSE <<Head(s)>> \o UnescapeJSON(Tail(s))

UnquoteJSONString(q) == UnescapeJSON(SubSeq(q, 2, Len(q) - 1))

\* What a response body can hold as its data member: absent, null, partial
\* or complete.
dataPartial == Obj(<< <<<<"p">>, Null>> >>)
dataFull == Obj(<< <<<<"p">>, Num(1)>> >>)
ResponseData == {Undefined, Null, dataPartial, dataFull}

\* JSON.parse of a value text: the value that JSON.stringify writes so.
parseValue(text) == CHOOSE v \in ResponseData \ {Undefined} : JSONstringify(v) = text

NoItem == Null    \* sessionStorage.getItem of a key never set

\* JSON.parse(sessionStorage.getItem(queryCacheKey)): JSON.parse(null) is null.
JSONparse(item) ==
  IF item = NoItem THEN Null
  ELSE Obj([i \in DOMAIN item.members |->
              <<UnquoteJSONString(item.members[i][1]), parseValue(item.members[i][2])>>])

\* object[key]
getProperty(object, key) ==
  IF \E i \in DOMAIN object.e : object.e[i][1] = key
  THEN object.e[CHOOSE i \in DOMAIN object.e : object.e[i][1] = key][2]
  ELSE Undefined

hasProperty(object, key) == \E i \in DOMAIN object.e : object.e[i][1] = key

(***************************************************************************)
(* Query, the cached version (src/query.js 348-424).                       *)
(***************************************************************************)
Calls == 1..MaxCalls

LanguageWord == <<"l", "a", "n", "g", "u", "a", "g", "e">>
HandleWord == <<"h">>
zhCN == <<"z", "h", "-", "C", "N">>

\* The variables objects the callers hold, by identity.
VarObjs == {"o1"}
Ref(o) == [t |-> "ref", o |-> o]
withLanguage == << <<LanguageWord, Str(zhCN)>>, <<HandleWord, Str(<<"x">>)>> >>

\* The document the modelled session queries with.
DriverDocs == {Document(bodyG, <<OperationDefinition(<<"Q">>), fragG>>)}

\* Lines 351-354.
Url == "https://store_name.myshopify.com/api/2023-04/graphql.json"

\* Lines 359-363.
baseHeaders ==
  ("Accept" :> "application/json") @@ ("Content-Type" :> "application/json")
  @@ ("X-Shopify-Storefront-Access-Token" :> "storefront_api_token")

\* The value of the variables argument: undefined, or the object it names.
deref(variables) ==
  IF variables = Undefined THEN Undefined ELSE Obj(variablesHeap[variables.o])

\* variables?.language
languageOf(variablesValue) ==
  IF variablesValue = Undefined THEN Undefined
  ELSE getProperty(variablesValue, LanguageWord)

\* Line 374, the mutant: the first version's form (line 40), the country dropped.
formatLanguageNoCountry(language) == splitFirst(toUpperCase(language), "-")

\* Line 374.
formatLanguage(language) == replaceAll(toUpperCase(language), "-", "_")

\* Lines 384-388, the mutant: the useCache argument not consulted.
cacheHitAlways(useCache, queryCache, storageKey) ==
  /\ truthy(queryCache)
  /\ truthy(getProperty(queryCache, storageKey))

\* Lines 384-388.
cacheHit(useCache, queryCache, storageKey) ==
  /\ useCache
  /\ truthy(queryCache)
  /\ truthy(getProperty(queryCache, storageKey))

\* Line 405, the mutant: the status not checked.
responseOkUnchecked(response) == TRUE

\* Line 405: response.ok
responseOk(response) == response.ok

\* Line 413, the mutant: the object parsed at line 382, before the request.
cacheReadAtStart(i) == IF truthy(calls[i].queryCache) THEN calls[i].queryCache ELSE Obj(<<>>)

\* Line 413: JSON.parse(sessionStorage.getItem(queryCacheKey)) || {}
cacheReadAtWrite(i) ==
  LET parsed == JSONparse(sessionStorage) IN IF truthy(parsed) THEN parsed ELSE Obj(<<>>)

\* Line 414, the mutant: an entry already there is kept.
storeEntryIfAbsent(data, storageKey, value) ==
  IF hasProperty(data, storageKey) THEN data
  ELSE Obj(setProperty(data.e, storageKey, value))

\* Line 414: data[storageKey] = response.data
storeEntry(data, storageKey, value) == Obj(setProperty(data.e, storageKey, value))

IdleCall ==
  [pc |-> "idle", query |-> Undefined, variables |-> Undefined, variablesIn |-> Undefined,
   useCache |-> FALSE, storageKey |-> <<>>, queryCache |-> Undefined, fetches |-> <<>>,
   response |-> Undefined, decoded |-> FALSE, json |-> Undefined, settled |-> <<>>,
   startedAt |-> 0, endedAt |-> 0]

resolve(value) == [how |-> "resolve", value |-> value]
reject(value) == [how |-> "reject", value |-> value]
TypeError == [t |-> "error", name |-> "TypeError"]      \* fetch: the network failed
SyntaxError == [t |-> "error", name |-> "SyntaxError"]  \* response.json(): malformed body

Init ==
  /\ variablesHeap = [o \in VarObjs |-> withLanguage]
  /\ calls = [i \in Calls |-> IdleCall]
  /\ sessionStorage = NoItem
  /\ clock = 0
  /\ keyIn = KeyIdle /\ keyOut = Undefined
  /\ astIn = BuildIdle /\ queryOut = Undefined

\* The call Query({ query: graphqlQuery, variables }, useCache) up to its
\* first await or its early return (lines 348-403).  Calls are numbered in
\* the order they are made.
Start(i, graphqlQuery, variables, useCache) ==
  LET passed == deref(variables)
      language == languageOf(passed)
      hasLanguage == truthy(language)
      headers ==
        IF hasLanguage THEN ("Accept-Language" :> language.s) @@ baseHeaders
        ELSE baseHeaders
      heap ==
        IF hasLanguage
        THEN [variablesHeap EXCEPT ![variables.o] =
                setProperty(@, LanguageWord, Str(formatLanguage(language.s)))]
        ELSE variablesHeap
      normalized == IF variables = Undefined THEN Undefined ELSE Obj(heap[variables.o])
      storageKey == buildStorageKey(graphqlQuery, normalized)
      queryCache == JSONparse(sessionStorage)
      started ==
        [calls[i] EXCEPT !.query = graphqlQuery, !.variables = variables,
                         !.variablesIn = passed, !.useCache = useCache,
                         !.storageKey = storageKey, !.queryCache = queryCache,
                         !.startedAt = clock + 1]
      request ==
        [url |-> Url, method |-> "POST", headers |-> headers,
         body |-> stringifyMembers(<< <<<<"q", "u", "e", "r", "y">>, Str(buildQuery(graphqlQuery))>>,
                                      <<<<"v", "a", "r", "i", "a", "b", "l", "e", "s">>, normalized>> >>)]
  IN /\ calls[i].pc = "idle"
     /\ IF i = 1 THEN TRUE ELSE calls[i - 1].pc # "idle"
     /\ variablesHeap' = heap
     /\ clock' = clock + 1
     /\ IF cacheHit(useCache, queryCache, storageKey)
        THEN calls' = [calls EXCEPT ![i] =
                         [started EXCEPT !.pc = "done", !.endedAt = clock + 1,
                                         !.settled = <<resolve(getProperty(queryCache, storageKey))>>]]
        ELSE calls' = [calls EXCEPT ![i] =
                         [started EXCEPT !.pc = "fetching", !.fetches = <<request>>]]
     /\ UNCHANGED <<sessionStorage, keyVars, buildVars>>

\* What fetch can resolve with: the status line of a response.  (The
\* Response of the Fetch standard has no description property, for which
\* response.description is undefined; the modelled one carries a text.)
Responses ==
  {[ok |-> TRUE, description |-> Undefined],
   [ok |-> FALSE, description |-> Str(<<"N", "o">>)]}

\* await fetch(...) resolves with a response (lines 396-410): a response
\* that is not ok rejects the call; otherwise response.json() is awaited.
FetchResolves(i, response) ==
  /\ calls[i].pc = "fetching"
  /\ IF ~responseOk(response)
     THEN /\ calls' = [calls EXCEPT ![i].pc = "done", ![i].response = response,
                                    ![i].endedAt = clock + 1,
                                    ![i].settled = Append(@, reject(response.description))]
          /\ clock' = clock + 1
     ELSE /\ calls' = [calls EXCEPT ![i].pc = "decoding", ![i].response = response,
                                    ![i].decoded = TRUE]
          /\ UNCHANGED clock
  /\ UNCHANGED <<variablesHeap, sessionStorage, keyVars, buildVars>>

\* await fetch(...) rejects: the catch clause rejects with the error
\* (lines 420-422).
FetchRejects(i) ==
  /\ calls[i].pc = "fetching"
  /\ clock' = clock + 1
  /\ calls' = [calls EXCEPT ![i].pc = "done", ![i].endedAt = clock + 1,
                            ![i].settled = Append(@, reject(TypeError))]
  /\ UNCHANGED <<variablesHeap, sessionStorage, keyVars, buildVars>>

\* await response.json() resolves with the decoded body, whose data member
\* is data (lines 410-418): the synchronous read-modify-write of the cache
\* item, then resolve.
JsonResolves(i, data) ==
  /\ calls[i].pc = "decoding"
  /\ clock' = clock + 1
  /\ IF calls[i].useCache
     THEN sessionStorage' =
            stringifyMembers(storeEntry(cacheReadAtWrite(i), calls[i].storageKey, data).e)
     ELSE UNCHANGED sessionStorage
  /\ calls' = [calls EXCEPT ![i].pc = "done", ![i].endedAt = clock + 1,
                            ![i].json = [data |-> data],
                            ![i].settled = Append(@, resolve(data))]
  /\ UNCHANGED <<variablesHeap, keyVars, buildVars>>

\* await response.json() rejects (a malformed body): the catch clause
\* rejects with the error.
JsonRejects(i) ==
  /\ calls[i].pc = "decoding"
  /\ clock' = clock + 1
  /\ calls' = [calls EXCEPT ![i].pc = "done", ![i].endedAt = clock + 1,
                            ![i].settled = Append(@, reject(SyntaxError))]
  /\ UNCHANGED <<variablesHeap, sessionStorage, keyVars, buildVars>>

VariablesArgs == {Undefined} \cup {Ref(o) : o \in VarObjs}

Next ==
  \/ \E i \in Calls, q \in DriverDocs, v \in VariablesArgs, c \in BOOLEAN : Start(i, q, v, c)
  \/ \E i \in Calls, r \in Responses : FetchResolves(i, r)
  \/ \E i \in Calls : FetchRejects(i)
  \/ \E i \in Calls, d \in ResponseData : JsonResolves(i, d)
  \/ \E i \in Calls : JsonRejects(i)

Spec == Init /\ [][Next]_vars

(***************************************************************************)
(* Stand-alone runs of the two pure functions, on inputs drawn from the    *)
(* bounded sets above; the driver stays in its initial state.              *)
(***************************************************************************)
DriverIdle ==
  /\ variablesHeap = [o \in VarObjs |-> withLanguage]
  /\ calls = [i \in Calls |-> IdleCall]
  /\ sessionStorage = NoItem
  /\ clock = 0

InitKey ==
  /\ keyIn \in [doc : KeyDocs, v1 : KeyVarMaps, v2 : KeyVarMaps]
  /\ keyOut = Undefined
  /\ astIn = BuildIdle /\ queryOut = Undefined
  /\ DriverIdle

ComputeKeys ==
  /\ keyIn # KeyIdle
  /\ keyOut = Undefined
  /\ keyOut' = [k1 |-> buildStorageKey(keyIn.doc, keyIn.v1),
                k2 |-> buildStorageKey(keyIn.doc, keyIn.v2)]
  /\ UNCHANGED <<keyIn, driverVars, buildVars>>

NextKey == ComputeKeys

SpecKey == InitKey /\ [][NextKey]_vars

InitBuild ==
  /\ astIn \in BuildInputs
  /\ queryOut = Undefined
  /\ keyIn = KeyIdle /\ keyOut = Undefined
  /\ DriverIdle

Build ==
  /\ astIn # BuildIdle
  /\ queryOut = Undefined
  /\ queryOut' =
       [t |-> "string", s |-> buildQuery(astIn),
        inlined |-> [i \in DOMAIN fragmentsOf(astIn) |->
                       formattedValueOf(fragmentsOf(astIn), i)]]
  /\ UNCHANGED <<astIn, driverVars, keyVars>>

NextBuild == Build

SpecBuild == InitBuild /\ [][NextBuild]_vars

(***************************************************************************)
(* Vocabulary of the properties.                                           *)
(***************************************************************************)
started(i) == calls[i].pc # "idle"
done(i) == calls[i].pc = "done"
resolved(i) == Len(calls[i].settled) = 1 /\ calls[i].settled[1].how = "resolve"

\* The call fetched, got an ok response and decoded its body.
succeeded(i) == done(i) /\ calls[i].json # Undefined

\* Both calls were started before either completed.
overlap(i, j) ==
  /\ started(i) /\ started(j)
  /\ done(j) => calls[i].startedAt < calls[j].endedAt
  /\ done(i) => calls[j].startedAt < calls[i].endedAt

\* The entry of the session cache at a key, read as the code reads it.
cacheEntry(storageKey) ==
  LET queryCache == JSONparse(sessionStorage)
  IN IF truthy(queryCache) THEN getProperty(queryCache, storageKey) ELSE Undefined

\* The cache object a call parsed when it started held an entry at its key.
entryAtStart(i) ==
  truthy(calls[i].queryCache) /\ hasProperty(calls[i].queryCache, calls[i].storageKey)

\* No call other than i and j wrote the cache at i's key after i completed.
noLaterWriter(i, j) ==
  \A k \in Calls \ {i, j} :
    ~(succeeded(k) /\ calls[k].useCache /\ calls[k].storageKey = calls[i].storageKey
      /\ calls[k].endedAt > calls[i].endedAt)

NameChars == {LowerCase[k] : k \in DOMAIN LowerCase} \cup {UpperCase[k] : k \in DOMAIN UpperCase}
             \cup {Digits[k] : k \in DOMAIN Digits} \cup {"_"}

\* The places of text s where the spread of fragment name stands as a
\* token: the three dots and the name, not followed by a further name character.
spreadsAt(s, name) ==
  {p \in 1..Len(s) :
     /\ p + Len(name) + 2 <= Len(s)
     /\ SubSeq(s, p, p + Len(name) + 2) = spreadOf(name)
     /\ p + Len(name) + 3 <= Len(s) => s[p + Len(name) + 3] \notin NameChars}

(***************************************************************************)
(* C3 (buildStorageKey, under SpecKey).                                    *)
(***************************************************************************)
\* C3: buildStorageKey is deterministic and separates variable maps: the
\* key of (D, V1) is the key the function gives again for (D, V1), and for
\* two maps V1, V2 whose JSON texts differ the keys of (D, V1) and (D, V2)
\* differ.
C3_KeySeparatesVariableMaps ==
  keyOut # Undefined =>
    /\ keyOut.k1 = buildStorageKey(keyIn.doc, keyIn.v1)
    /\ (/\ keyIn.v1 # Undefined
        /\ keyIn.v2 # Undefined
        /\ JSONstringify(keyIn.v1) # JSONstringify(keyIn.v2))
       => keyOut.k1 # keyOut.k2

(***************************************************************************)
(* C4, C9 (buildQuery, under SpecBuild).                                   *)
(***************************************************************************)
\* The operation body buildQuery starts from.
operationBody(astData) == trim(stripImports(astData.loc.source.body))

\* The text the claims expect to be inlined for fragment i: its rendered
\* body in which, for every other fragment in definition order, the first
\* spread of that fragment is replaced by that fragment's rendered text.
RECURSIVE expectedInlined(_, _, _)
expectedInlined(fragments, i, j) ==
  IF j = 0 THEN fragments[i][2]
  ELSE LET before == expectedInlined(fragments, i, j - 1)
       IN IF j = i THEN before
          ELSE replace(before, spreadOf(fragments[j][1]), fragments[j][2])

\* C4: for every defined fragment F whose spread occurs exactly once in
\* the operation body, the built query holds F's rendered body (as
\* rendered, or with its nested spreads inlined) and no spread of F.
C4_FragmentSingleSubstitution ==
  queryOut # Undefined =>
    LET fragments == fragmentsOf(astIn)
    IN \A i \in DOMAIN fragments :
         Cardinality(spreadsAt(operationBody(astIn), fragments[i][1])) = 1 =>
           /\ \/ includes(queryOut.s, fragments[i][2])
              \/ includes(queryOut.s, expectedInlined(fragments, i, Len(fragments)))
           /\ spreadsAt(queryOut.s, fragments[i][1]) = {}

\* C9: for any number and order of fragment definitions, the text inlined
\* into the operation body for a fragment G is G's rendered body in which,
\* for every other defined fragment H, the first spread of H has been
\* replaced by H's rendered text, none of these replacements discarded.
C9_OnePassInliningKeepsAll ==
  queryOut # Undefined =>
    LET fragments == fragmentsOf(astIn)
    IN \A i \in DOMAIN fragments :
         queryOut.inlined[i] = expectedInlined(fragments, i, Len(fragments))

(***************************************************************************)
(* C1, C2, C5, C6, C7, C8, C10 (Query, under Spec).                        *)
(***************************************************************************)
\* C1: if a call with useCache = true completed successfully with data d,
\* then a later call (started after the first completed) with the same
\* document and the same variables argument and useCache = true resolves
\* with d and issues no HTTP request, whatever data member d the server
\* returned, null included (no other call having rewritten the entry in
\* between).
C1_CacheHitReturnsFirstData ==
  \A i, j \in Calls :
    (/\ i < j
     /\ done(i) /\ resolved(i) /\ calls[i].useCache
     /\ calls[i].settled[1].value # Undefined
     /\ done(j) /\ calls[j].useCache
     /\ calls[j].query = calls[i].query
     /\ calls[j].variables = calls[i].variables
     /\ calls[i].endedAt < calls[j].startedAt
     /\ \A k \in Calls \ {i, j} :
          ~(succeeded(k) /\ calls[k].storageKey = calls[i].storageKey
            /\ calls[k].endedAt > calls[i].endedAt))
    => /\ calls[j].fetches = <<>>
       /\ calls[j].settled = <<resolve(calls[i].settled[1].value)>>

\* C2: a call with useCache = false issues exactly one HTTP POST (also when
\* the cache holds an entry for its key), resolves only with the data of
\* its own response, and no step of it changes the session cache item.
C2_UseCacheFalseBypassesCache ==
  /\ [](\A i \in Calls :
          (started(i) /\ ~calls[i].useCache) =>
            /\ Len(calls[i].fetches) = 1
            /\ calls[i].fetches[1].method = "POST"
            /\ resolved(i) =>
                 /\ calls[i].json # Undefined
                 /\ calls[i].settled[1].value = calls[i].json.data)
  /\ [][\A i \in Calls :
          (calls'[i] # calls[i] /\ ~calls'[i].useCache) => sessionStorage' = sessionStorage]_vars

\* C2, witness: a call with useCache = false that resolved with its
\* response's data although the cache it parsed at its start held another,
\* truthy entry at its key.
C2_Witness ==
  \E i \in Calls :
    /\ done(i) /\ ~calls[i].useCache /\ resolved(i)
    /\ truthy(calls[i].queryCache)
    /\ truthy(getProperty(calls[i].queryCache, calls[i].storageKey))
    /\ getProperty(calls[i].queryCache, calls[i].storageKey) # calls[i].settled[1].value
    /\ Len(calls[i].fetches) = 1

\* The language code in SCREAMING_SNAKE_CASE, character by character.
screamingSnake(language) ==
  [k \in DOMAIN language |->
     IF language[k] = "-" THEN "_" ELSE toUpperCase(<<language[k]>>)[1]]

\* C5: a request of a call whose variables hold a non-empty language L
\* carries Accept-Language = L as passed in, and body variables in which
\* language is L upper-cased with every "-" replaced by "_"; a request of a
\* call without a language carries no Accept-Language header.
C5_LanguageNormalization ==
  \A i \in Calls :
    calls[i].fetches # <<>> =>
      LET request == calls[i].fetches[1]
          passed == calls[i].variablesIn
          language == languageOf(passed)
      IN /\ truthy(language) =>
              /\ "Accept-Language" \in DOMAIN request.headers
              /\ request.headers["Accept-Language"] = language.s
              /\ Len(request.body.members) = 2
              /\ request.body.members[2][2] =
                   JSONstringify(Obj(setProperty(passed.e, LanguageWord,
                                                 Str(screamingSnake(language.s)))))
         /\ language = Undefined => "Accept-Language" \notin DOMAIN request.headers

\* C5, witness: a request was issued for variables with language zh-CN.
C5_Witness ==
  \E i \in Calls :
    /\ calls[i].fetches # <<>>
    /\ languageOf(calls[i].variablesIn) = Str(zhCN)
    /\ calls[i].fetches[1].headers["Accept-Language"] = zhCN
    /\ includes(calls[i].fetches[1].body.members[2][2], <<"Z", "H", "_", "C", "N">>)

\* C6: a call whose response is not ok rejects with the response's
\* description, never decodes the body, has issued one request only, and
\* the step that receives the response leaves the session cache item as it
\* was; every call settles at most once, and exactly once when it is done.
C6_NonOkRejectsOnce ==
  /\ [](\A i \in Calls :
          /\ Len(calls[i].settled) <= 1
          /\ done(i) <=> Len(calls[i].settled) = 1
          /\ (calls[i].response # Undefined /\ ~calls[i].response.ok) =>
               /\ done(i)
               /\ calls[i].settled = <<reject(calls[i].response.description)>>
               /\ ~calls[i].decoded
               /\ calls[i].json = Undefined
               /\ Len(calls[i].fetches) = 1)
  /\ [][\A i \in Calls :
          (calls[i].response = Undefined /\ calls'[i].response # Undefined
           /\ ~calls'[i].response.ok) => sessionStorage' = sessionStorage]_vars

\* C6, witness: a caching call was rejected by a response that is not ok
\* while the session cache held an item.
C6_Witness ==
  \E i \in Calls :
    /\ done(i) /\ calls[i].useCache
    /\ calls[i].response # Undefined /\ ~calls[i].response.ok
    /\ calls[i].settled = <<reject(calls[i].response.description)>>
    /\ sessionStorage # NoItem

\* The two calls cache, have distinct keys, overlapped, both succeeded, and
\* no third call wrote either key after them.
concurrentDistinctKeys(i, j) ==
  /\ i # j
  /\ calls[i].useCache /\ calls[j].useCache
  /\ succeeded(i) /\ succeeded(j)
  /\ overlap(i, j)
  /\ calls[i].storageKey # calls[j].storageKey
  /\ noLaterWriter(i, j) /\ noLaterWriter(j, i)

\* C7 as stated: two concurrent caching calls with distinct keys and
\* successful responses whose network waits overlap leave only one of
\* their two entries in the cache store (the other write is lost).
C7_LostUpdate ==
  \A i, j \in Calls :
    (/\ concurrentDistinctKeys(i, j)
     /\ calls[i].json.data # Undefined /\ calls[j].json.data # Undefined)
    => (hasProperty(JSONparse(sessionStorage), calls[i].storageKey)
        # hasProperty(JSONparse(sessionStorage), calls[j].storageKey))

\* C7, amended: no update is lost.  After two concurrent caching calls with
\* distinct keys have both succeeded, in any interleaving, the cache store
\* holds at each call's key the data of that call.
C7_NoLostUpdate ==
  \A i, j \in Calls :
    concurrentDistinctKeys(i, j) =>
      /\ cacheEntry(calls[i].storageKey) = calls[i].json.data
      /\ cacheEntry(calls[j].storageKey) = calls[j].json.data

\* C7, witness: call 1 and call 2, distinct keys, both requests in flight
\* before either response, both succeeded with data, both entries stored.
C7_Witness ==
  /\ concurrentDistinctKeys(1, 2)
  /\ calls[2].startedAt < calls[1].endedAt
  /\ calls[1].endedAt < calls[2].endedAt
  /\ calls[1].json.data = dataPartial /\ calls[2].json.data = dataFull
  /\ hasProperty(JSONparse(sessionStorage), calls[1].storageKey)
  /\ hasProperty(JSONparse(sessionStorage), calls[2].storageKey)

\* C8: two caching calls with the same key, both started before either
\* completed and with no entry at that key when they started, each issue
\* their own HTTP request; once both have succeeded the entry at the key is
\* the data of the call that completed later (no third call having written
\* the key after it).
C8_NoDeduplicationLastWriteWins ==
  \A i, j \in Calls :
    (/\ i # j
     /\ calls[i].useCache /\ calls[j].useCache
     /\ overlap(i, j)
     /\ calls[i].storageKey = calls[j].storageKey
     /\ ~entryAtStart(i) /\ ~entryAtStart(j))
    => /\ Len(calls[i].fetches) = 1 /\ Len(calls[j].fetches) = 1
       /\ (/\ succeeded(i) /\ succeeded(j)
           /\ calls[i].endedAt < calls[j].endedAt
           /\ noLaterWriter(j, i))
          => cacheEntry(calls[j].storageKey) = calls[j].json.data

\* C8, witness: call 1 started first and completed last; both succeeded
\* with different data, and the entry is call 1's.
C8_Witness ==
  /\ calls[1].useCache /\ calls[2].useCache
  /\ calls[1].storageKey = calls[2].storageKey
  /\ succeeded(1) /\ succeeded(2)
  /\ calls[2].startedAt < calls[2].endedAt
  /\ calls[2].endedAt < calls[1].endedAt
  /\ Len(calls[1].fetches) = 1 /\ Len(calls[2].fetches) = 1
  /\ calls[1].json.data = dataFull /\ calls[2].json.data = dataPartial
  /\ cacheEntry(calls[1].storageKey) = dataFull

\* C10: Query leaves the caller's variables map as it was passed, so two
\* calls given the same map send the same Accept-Language header and the
\* same body variables.
C10_VariablesNotMutated ==
  /\ \A i \in Calls :
       (started(i) /\ calls[i].variables # Undefined) =>
         deref(calls[i].variables) = calls[i].variablesIn
  /\ \A i, j \in Calls :
       (/\ calls[i].variables # Undefined
        /\ calls[i].variables = calls[j].variables
        /\ calls[i].fetches # <<>> /\ calls[j].fetches # <<>>)
       => /\ calls[i].fetches[1].headers = calls[j].fetches[1].headers
          /\ calls[i].fetches[1].body = calls[j].fetches[1].body

====
